---- MODULE Spec2Model ----
(***************************************************************************)
(* A model of the Sharemind secret-sharing library (sharemind.py).         *)
(*                                                                         *)
(* The program state is the set of live SharemindSecret objects, kept as a *)
(* heap: a sequence of records [size, shares], an object's identity being  *)
(* its index.  Every method of the class is an operator that takes a heap  *)
(* and returns the heap after the call; the object a call returns is the   *)
(* last one of the heap it leaves.  re_share is the only method that       *)
(* assigns to an existing object.                                           *)
(*                                                                         *)
(* random.randint is a stream of draws: a call of a method reads a tape t  *)
(* from draw number k on, in the order the code draws.                     *)
(***************************************************************************)
EXTENDS Integers, Sequences, FiniteSets, TLC

VARIABLES heap, last, calls

vars == <<heap, last, calls>>

(***************************************************************************)
(* Bounds of the model.                                                    *)
(***************************************************************************)
\* the number of random tapes an operation may run under
NumTapes == 4
\* the number of live objects the user program of Spec holds at most
MaxObjs == 3
\* the number of calls the user program of Spec makes at most
MaxCalls == 2

Tapes == 0 .. (NumTapes - 1)

\* the tapes the calls of the user program of Spec run under: the first and the last
UserTapes == {0, NumTapes - 1}

(***************************************************************************)
(* random.randint(0, m - 1): draw number i of tape t.                      *)
(***************************************************************************)
Rand(t, i, m) == ((i * i + i) \div 2 + (i \div 3) * (t + 1) + (i \div 7) + t + (t \div 2) * i) % m

(***************************************************************************)
(* v = value; Rest(v): the value of a statement is computed once, before   *)
(* the statements that use it.                                             *)
(***************************************************************************)
Bind(value, Rest(_)) == CHOOSE r \in {Rest(v) : v \in {value}} : TRUE

(***************************************************************************)
(* The number of draws each method makes (they do not depend on the data). *)
(***************************************************************************)
DrawsGenerateShares == 2
DrawsReShare == 3
DrawsMulProtocol == 12
DrawsMul == DrawsMulProtocol + DrawsReShare

(***************************************************************************)
(* Objects.  An AssertionError leaves, as the last object of the heap, the *)
(* marker Failed, which no constructor can build.                          *)
(***************************************************************************)
Mod(size) == 2 ^ size

Failed == [size |-> 0, shares |-> << >>]

Raise(h) == Append(h, Failed)

Raised(h) == Len(h) > 0 /\ h[Len(h)] = Failed

NumericValue(s) == (s.shares[1] + s.shares[2] + s.shares[3]) % Mod(s.size)

GenerateShares(value, size, t, k) ==
    LET mod == Mod(size)
        a == Rand(t, k, mod)
        b == Rand(t, k + 1, mod)
        c == (value - a - b) % mod
    IN  <<a, b, c>>

\* SharemindSecret(value=value, size=size)
InitValue(h, value, size, t, k) ==
    IF 0 <= value /\ value < Mod(size)
    THEN Append(h, [size |-> size, shares |-> GenerateShares(value, size, t, k)])
    ELSE Raise(h)

\* SharemindSecret(shares=shares, size=size)
InitShares(h, shares, size) ==
    IF /\ \A i \in 1 .. Len(shares) : 0 <= shares[i] /\ shares[i] < Mod(size)
       /\ Len(shares) = 3
    THEN Append(h, [size |-> size, shares |-> shares])
    ELSE Raise(h)

\* re_share that keeps the sums u + r - r' as they are, not reduced modulo 2^n
ReShareUnreduced(h, id, t, k) ==
    LET mod == Mod(h[id].size)
        u == h[id].shares
        r1 == Rand(t, k, mod)
        r2 == Rand(t, k + 1, mod)
        r3 == Rand(t, k + 2, mod)
    IN  [h EXCEPT ![id].shares = <<u[1] + r3 - r1, u[2] + r1 - r2, u[3] + r2 - r3>>]

\* x.re_share(), x the object id: assigns to x.shares
ReShareOf(h, id, t, k) ==
    LET mod == Mod(h[id].size)
        u == h[id].shares
        r1 == Rand(t, k, mod)
        r2 == Rand(t, k + 1, mod)
        r3 == Rand(t, k + 2, mod)
        w1 == (u[1] + r3 - r1) % mod
        w2 == (u[2] + r1 - r2) % mod
        w3 == (u[3] + r2 - r3) % mod
    IN  [h EXCEPT ![id].shares = <<w1, w2, w3>>]

\* w = SharemindSecret(shares=shares, size=size); w.re_share(); return w
NewReShared(h, shares, size, t, k) ==
    Bind(InitShares(h, shares, size), LAMBDA h1 :
        IF Raised(h1) THEN h1 ELSE ReShareOf(h1, Len(h1), t, k))

\* a + b that accumulates into a: a += b; a.re_share(); return a copy of a
AddInPlace(h, a, b, t, k) ==
    IF h[a].size # h[b].size THEN Raise(h)
    ELSE LET mod == Mod(h[a].size)
         IN  Bind(ReShareOf([h EXCEPT ![a].shares =
                                [i \in 1 .. 3 |-> (h[a].shares[i] + h[b].shares[i]) % mod]],
                            a, t, k),
                  LAMBDA h1 : Append(h1, h1[a]))

\* a + b
Add(h, a, b, t, k) ==
    IF h[a].size # h[b].size THEN Raise(h)
    ELSE LET mod == Mod(h[a].size)
         IN  NewReShared(h, [i \in 1 .. 3 |-> (h[a].shares[i] + h[b].shares[i]) % mod],
                         h[a].size, t, k)

\* a - b
Sub(h, a, b, t, k) ==
    IF h[a].size # h[b].size THEN Raise(h)
    ELSE LET mod == Mod(h[a].size)
         IN  NewReShared(h, [i \in 1 .. 3 |-> (h[a].shares[i] - h[b].shares[i]) % mod],
                         h[a].size, t, k)

\* a * c with the remainder of a share truncated towards zero, as C's % does
MulScalarTruncated(h, a, c, t, k) ==
    LET mod == Mod(h[a].size)
    IN  NewReShared(h, [i \in 1 .. 3 |->
                           IF c < 0 THEN -((h[a].shares[i] * (-c)) % mod)
                           ELSE (h[a].shares[i] * c) % mod],
                    h[a].size, t, k)

\* a * c, c a plain int
MulScalar(h, a, c, t, k) ==
    LET mod == Mod(h[a].size)
    IN  NewReShared(h, [i \in 1 .. 3 |-> (h[a].shares[i] * c) % mod], h[a].size, t, k)

\* the shares (w1, w2, w3) of rounds 1 to 3 of a * b, b a secret
MulShares(u, v, mod, t, k) ==
    LET u1 == u[1]  u2 == u[2]  u3 == u[3]
        v1 == v[1]  v2 == v[2]  v3 == v[3]
        r12 == Rand(t, k, mod)      r13 == Rand(t, k + 1, mod)
        s12 == Rand(t, k + 2, mod)  s13 == Rand(t, k + 3, mod)
        r23 == Rand(t, k + 4, mod)  r21 == Rand(t, k + 5, mod)
        s23 == Rand(t, k + 6, mod)  s21 == Rand(t, k + 7, mod)
        r31 == Rand(t, k + 8, mod)  r32 == Rand(t, k + 9, mod)
        s31 == Rand(t, k + 10, mod) s32 == Rand(t, k + 11, mod)
        a12 == u1 + r31  b12 == v1 + s31
        a13 == u1 + r21  b13 == v1 + s21
        a23 == u2 + r12  b23 == v2 + s12
        a21 == u2 + r32  b21 == v2 + s32
        a31 == u3 + r23  b31 == v3 + s23
        a32 == u3 + r13  b32 == v3 + s13
        c1 == u1 * b21 + u1 * b31 + v1 * a21 + v1 * a31 - a12 * b21 - b12 * a21
              + r12 * s13 + s12 * r13
        w1 == (c1 + u1 * v1) % mod
        c2 == u2 * b32 + u2 * b12 + v2 * a32 + v2 * a12 - a23 * b32 - b23 * a32
              + r23 * s21 + s23 * r21
        w2 == (c2 + u2 * v2) % mod
        c3 == u3 * b13 + u3 * b23 + v3 * a13 + v3 * a23 - a31 * b13 - b31 * a13
              + r31 * s32 + s31 * r32
        w3 == (c3 + u3 * v3) % mod
    IN  <<w1, w2, w3>>

\* a * b of the products of the shares each party holds, without the cross terms
MulShareWise(h, a, b, t, k) ==
    IF h[a].size # h[b].size THEN Raise(h)
    ELSE LET mod == Mod(h[a].size)
         IN  NewReShared(h, [i \in 1 .. 3 |-> (h[a].shares[i] * h[b].shares[i]) % mod],
                         h[a].size, t, k + DrawsMulProtocol)

\* a * b, b a secret
Mul(h, a, b, t, k) ==
    IF h[a].size # h[b].size THEN Raise(h)
    ELSE Bind(MulShares(h[a].shares, h[b].shares, Mod(h[a].size), t, k), LAMBDA w :
             NewReShared(h, w, h[a].size, t, k + DrawsMulProtocol))

(***************************************************************************)
(* from_binary_shares: rounds 1 to 4 of the conversion of binary shares to *)
(* shares over the ring, on the objects u, c, ab, ac, bc, abc and the      *)
(* temporaries of round 4, in the order Python evaluates them.             *)
(***************************************************************************)
DrawsBinaryProtocol == 12
DrawsRound4 == 9 * DrawsReShare
DrawsFromBinaryShares ==
    DrawsBinaryProtocol + DrawsGenerateShares + DrawsMul + DrawsRound4

\* the shares of ab, ac and bc (round 3), u the binary shares
BinaryProducts(u, mod, t, k) ==
    LET r12 == Rand(t, k, mod)      r13 == Rand(t, k + 1, mod)
        s12 == Rand(t, k + 2, mod)  s13 == Rand(t, k + 3, mod)
        s1 == r12 * r13 - s12 - s13
        r23 == Rand(t, k + 4, mod)  r21 == Rand(t, k + 5, mod)
        s23 == Rand(t, k + 6, mod)  s21 == Rand(t, k + 7, mod)
        s2 == r23 * r21 - s23 - s21
        r31 == Rand(t, k + 8, mod)  r32 == Rand(t, k + 9, mod)
        s31 == Rand(t, k + 10, mod) s32 == Rand(t, k + 11, mod)
        s3 == r31 * r32 - s31 - s32
        u1 == u[1]  u2 == u[2]  u3 == u[3]
        b12 == r31 + u1
        b13 == r21 + u1
        b23 == r12 + u2
        b21 == r32 + u2
        b31 == r23 + u3
        b32 == r13 + u3
        ab1 == s31 - r31 * b21
        ab2 == b12 * b21 + s32 - b12 * r32
        ab3 == s3
        ac1 == b31 * b13 + s21 - b31 * r21
        ac2 == s2
        ac3 == s23 - r23 * b13
        bc1 == s1
        bc2 == s12 - r12 * b32
        bc3 == b23 * b32 + s13 - b23 * r13
    IN  [ab |-> <<ab1 % mod, ab2 % mod, ab3 % mod>>,
         ac |-> <<ac1 % mod, ac2 % mod, ac3 % mod>>,
         bc |-> <<bc1 % mod, bc2 % mod, bc3 % mod>>]

\* round 4 with w = u - ab * 2 - ac * 2 - bc * 2 + abc * 2
Round4Twice(h, u, ab, ac, bc, abc, t, k) ==
    Bind(MulScalar(h, ab, 2, t, k), LAMBDA h1 :
    Bind(Sub(h1, u, Len(h1), t, k + DrawsReShare), LAMBDA h2 :
    Bind(MulScalar(h2, ac, 2, t, k + 2 * DrawsReShare), LAMBDA h3 :
    Bind(Sub(h3, Len(h2), Len(h3), t, k + 3 * DrawsReShare), LAMBDA h4 :
    Bind(MulScalar(h4, bc, 2, t, k + 4 * DrawsReShare), LAMBDA h5 :
    Bind(Sub(h5, Len(h4), Len(h5), t, k + 5 * DrawsReShare), LAMBDA h6 :
    Bind(MulScalar(h6, abc, 2, t, k + 6 * DrawsReShare), LAMBDA h7 :
    Bind(Add(h7, Len(h6), Len(h7), t, k + 7 * DrawsReShare), LAMBDA h8 :
        ReShareOf(h8, Len(h8), t, k + 8 * DrawsReShare)))))))))

\* w = u - ab * 2 - ac * 2 - bc * 2 + abc * 4; w.re_share(); return w
Round4(h, u, ab, ac, bc, abc, t, k) ==
    Bind(MulScalar(h, ab, 2, t, k), LAMBDA h1 :
    Bind(Sub(h1, u, Len(h1), t, k + DrawsReShare), LAMBDA h2 :
    Bind(MulScalar(h2, ac, 2, t, k + 2 * DrawsReShare), LAMBDA h3 :
    Bind(Sub(h3, Len(h2), Len(h3), t, k + 3 * DrawsReShare), LAMBDA h4 :
    Bind(MulScalar(h4, bc, 2, t, k + 4 * DrawsReShare), LAMBDA h5 :
    Bind(Sub(h5, Len(h4), Len(h5), t, k + 5 * DrawsReShare), LAMBDA h6 :
    Bind(MulScalar(h6, abc, 4, t, k + 6 * DrawsReShare), LAMBDA h7 :
    Bind(Add(h7, Len(h6), Len(h7), t, k + 7 * DrawsReShare), LAMBDA h8 :
        ReShareOf(h8, Len(h8), t, k + 8 * DrawsReShare)))))))))

\* SharemindSecret.from_binary_shares(shares, size)
FromBinaryShares(h, shares, size, t, k) ==
    Bind(InitShares(h, shares, size), LAMBDA hu :
        IF Raised(hu) THEN hu
        ELSE
    Bind(BinaryProducts(hu[Len(hu)].shares, Mod(size), t, k), LAMBDA p :
    Bind(InitValue(hu, hu[Len(hu)].shares[3], size, t, k + DrawsBinaryProtocol), LAMBDA hc :
    Bind(InitShares(hc, p.ab, size), LAMBDA hab :
    Bind(InitShares(hab, p.ac, size), LAMBDA hac :
    Bind(InitShares(hac, p.bc, size), LAMBDA hbc :
    Bind(Mul(hbc, Len(hab), Len(hc), t, k + DrawsBinaryProtocol + DrawsGenerateShares),
         LAMBDA habc :
        Round4(habc, Len(hu), Len(hab), Len(hac), Len(hbc), Len(habc), t,
               k + DrawsBinaryProtocol + DrawsGenerateShares + DrawsMul))))))))

(***************************************************************************)
(* generate_random_number_and_bits: size random bits, each converted from  *)
(* three random binary shares, and the number r they make up.  An operator *)
(* that returns a list returns the heap h and the ids of the list.         *)
(***************************************************************************)
RECURSIVE RandomBits(_, _, _, _, _)
\* r_bits = [cls.from_binary_shares(shares=(random.randint(0, 1) ...)) ...]
RandomBits(h, size, bits, t, k) ==
    IF Len(bits) = size THEN [h |-> h, bits |-> bits]
    ELSE Bind(FromBinaryShares(h, <<Rand(t, k, 2), Rand(t, k + 1, 2), Rand(t, k + 2, 2)>>,
                               size, t, k + 3),
              LAMBDA h1 : RandomBits(h1, size, Append(bits, Len(h1)), t,
                                     k + 3 + DrawsFromBinaryShares))

RECURSIVE SumOfBits(_, _, _, _, _, _)
\* for i, bit in enumerate(r_bits): r += bit * (2 ** i)
SumOfBits(h, r, bits, i, t, k) ==
    IF i > Len(bits) THEN [h |-> h, r |-> r]
    ELSE Bind(MulScalar(h, bits[i], 2 ^ (i - 1), t, k), LAMBDA h1 :
         Bind(Add(h1, r, Len(h1), t, k + DrawsReShare), LAMBDA h2 :
             SumOfBits(h2, Len(h2), bits, i + 1, t, k + 2 * DrawsReShare)))

DrawsRandomNumberAndBits(size) ==
    size * (3 + DrawsFromBinaryShares) + DrawsGenerateShares + size * 2 * DrawsReShare

\* SharemindSecret.generate_random_number_and_bits(size)
GenerateRandomNumberAndBits(h, size, t, k) ==
    Bind(RandomBits(h, size, << >>, t, k), LAMBDA rb :
    Bind(InitValue(rb.h, 0, size, t, k + size * (3 + DrawsFromBinaryShares)), LAMBDA h0 :
    Bind(SumOfBits(h0, Len(h0), rb.bits, 1, t,
                   k + size * (3 + DrawsFromBinaryShares) + DrawsGenerateShares),
         LAMBDA sum : [h |-> sum.h, r |-> sum.r, bits |-> rb.bits])))

(***************************************************************************)
(* bitwise_addition: the carry look-ahead adder.  Lists are 1-based here,  *)
(* so index i of the code is index i + 1.                                  *)
(***************************************************************************)
RECURSIVE IntLog2(_)
\* int(math.log(size, 2))
IntLog2(size) == IF size < 2 THEN 0 ELSE 1 + IntLog2(size \div 2)

\* the (i1, i2) of a level in which every position reads the one below it:
\* i2 = i1 - 1
TreeLevelRipple(size, lvl) ==
    LET cnt == size \div (2 ^ (lvl + 1))
    IN  [j \in 1 .. ((2 ^ lvl) * cnt) |->
            LET l == (j - 1) \div cnt
                m == (j - 1) % cnt
            IN  <<2 ^ lvl + l + (2 ^ (lvl + 1)) * m, 2 ^ lvl + l + (2 ^ (lvl + 1)) * m - 1>>]

\* the (i1, i2) of level lvl, in the order of the loops over l and m
TreeLevel(size, lvl) ==
    LET cnt == size \div (2 ^ (lvl + 1))
    IN  [j \in 1 .. ((2 ^ lvl) * cnt) |->
            LET l == (j - 1) \div cnt
                m == (j - 1) % cnt
            IN  <<2 ^ lvl + l + (2 ^ (lvl + 1)) * m, 2 ^ lvl + (2 ^ (lvl + 1)) * m - 1>>]

RECURSIVE TreeFrom(_, _)
TreeFrom(size, lvl) ==
    IF lvl >= IntLog2(size) THEN << >>
    ELSE TreeLevel(size, lvl) \o TreeFrom(size, lvl + 1)

\* every (i1, i2) of rounds 2 ... log_2(n) + 1, in the order the loops reach them
TreeIndices(size) == TreeFrom(size, 0)

RECURSIVE GenerateFlags(_, _, _, _, _, _)
\* s_flags = [u * v for u, v in zip(u_bits, v_bits)]
GenerateFlags(h, u, v, s, t, k) ==
    IF Len(s) = Len(u) THEN [h |-> h, s |-> s]
    ELSE Bind(Mul(h, u[Len(s) + 1], v[Len(s) + 1], t, k), LAMBDA h1 :
             GenerateFlags(h1, u, v, Append(s, Len(h1)), t, k + DrawsMul))

RECURSIVE PropagateFlags(_, _, _, _, _, _, _)
\* p_flags = [u + v - s * 2 for u, v, s in zip(u_bits, v_bits, s_flags)]
PropagateFlags(h, u, v, s, p, t, k) ==
    IF Len(p) = Len(u) THEN [h |-> h, p |-> p]
    ELSE Bind(Add(h, u[Len(p) + 1], v[Len(p) + 1], t, k), LAMBDA h1 :
         Bind(MulScalar(h1, s[Len(p) + 1], 2, t, k + DrawsReShare), LAMBDA h2 :
         Bind(Sub(h2, Len(h1), Len(h2), t, k + 2 * DrawsReShare), LAMBDA h3 :
             PropagateFlags(h3, u, v, s, Append(p, Len(h3)), t, k + 3 * DrawsReShare))))

DrawsTreeStep == 2 * DrawsMul + DrawsReShare

\* the two assignments of a step of the tree in the other order:
\* p_flags[i1] = p_flags[i1] * p_flags[i2]
\* s_flags[i1] = s_flags[i1] + p_flags[i1] * s_flags[i2]
TreeStepPropagateFirst(st, i1, i2, t, k) ==
    Bind(Mul(st.h, st.p[i1 + 1], st.p[i2 + 1], t, k), LAMBDA h1 :
    Bind(Mul(h1, Len(h1), st.s[i2 + 1], t, k + DrawsMul), LAMBDA h2 :
    Bind(Add(h2, st.s[i1 + 1], Len(h2), t, k + 2 * DrawsMul), LAMBDA h3 :
        [h |-> h3,
         s |-> [st.s EXCEPT ![i1 + 1] = Len(h3)],
         p |-> [st.p EXCEPT ![i1 + 1] = Len(h1)]])))

\* s_flags[i1] = s_flags[i1] + p_flags[i1] * s_flags[i2]
\* p_flags[i1] = p_flags[i1] * p_flags[i2]
TreeStep(st, i1, i2, t, k) ==
    Bind(Mul(st.h, st.p[i1 + 1], st.s[i2 + 1], t, k), LAMBDA h1 :
    Bind(Add(h1, st.s[i1 + 1], Len(h1), t, k + DrawsMul), LAMBDA h2 :
    Bind(Mul(h2, st.p[i1 + 1], st.p[i2 + 1], t, k + DrawsMul + DrawsReShare), LAMBDA h3 :
        [h |-> h3,
         s |-> [st.s EXCEPT ![i1 + 1] = Len(h2)],
         p |-> [st.p EXCEPT ![i1 + 1] = Len(h3)]])))

RECURSIVE Tree(_, _, _, _, _)
\* the loops over k, l and m
Tree(st, idx, j, t, k) ==
    IF j > Len(idx) THEN st
    ELSE Bind(TreeStep(st, idx[j][1], idx[j][2], t, k), LAMBDA st1 :
             Tree(st1, idx, j + 1, t, k + DrawsTreeStep))

RECURSIVE SumBits(_, _, _, _, _, _, _)
\* w_bits = [u_bits[0] + v_bits[0] - s_flags[0] * 2] +
\*          [u_bits[i] + v_bits[i] + s_flags[i-1] - s_flags[i] * 2 for i in range(1, size)]
SumBits(h, u, v, s, w, t, k) ==
    IF Len(w) = Len(u) THEN [h |-> h, bits |-> w]
    ELSE LET i == Len(w) + 1
             k2 == IF i = 1 THEN k + DrawsReShare ELSE k + 2 * DrawsReShare
         IN  Bind(Add(h, u[i], v[i], t, k), LAMBDA h1 :
             Bind(IF i = 1 THEN h1 ELSE Add(h1, Len(h1), s[i - 1], t, k + DrawsReShare),
                  LAMBDA h2 :
             Bind(MulScalar(h2, s[i], 2, t, k2), LAMBDA h3 :
             Bind(Sub(h3, Len(h2), Len(h3), t, k2 + DrawsReShare), LAMBDA h4 :
                 SumBits(h4, u, v, s, Append(w, Len(h4)), t, k2 + 2 * DrawsReShare)))))

DrawsBitwiseAddition(size) ==
    size * DrawsMul + size * 3 * DrawsReShare + Len(TreeIndices(size)) * DrawsTreeStep
    + 3 * DrawsReShare + (size - 1) * 4 * DrawsReShare

\* the two assertions of bitwise_addition
BitsMatchSize(h, u, v) ==
    LET size == h[u[1]].size
    IN  /\ Len(u) = Len(v) /\ Len(v) = size
        /\ \A i \in 1 .. Len(u) : h[u[i]].size = size /\ h[v[i]].size = size

\* SharemindSecret.bitwise_addition(u_bits, v_bits)
BitwiseAddition(h, u, v, t, k) ==
    IF ~BitsMatchSize(h, u, v) THEN [h |-> Raise(h), bits |-> << >>]
    ELSE LET size == h[u[1]].size
             k1 == k + size * DrawsMul
             k2 == k1 + size * 3 * DrawsReShare
         IN  Bind(TreeIndices(size), LAMBDA idx :
             Bind(GenerateFlags(h, u, v, << >>, t, k), LAMBDA sf :
             Bind(PropagateFlags(sf.h, u, v, sf.s, << >>, t, k1), LAMBDA pf :
             Bind(Tree([h |-> pf.h, s |-> sf.s, p |-> pf.p], idx, 1, t, k2), LAMBDA st :
                 SumBits(st.h, u, v, st.s, << >>, t, k2 + Len(idx) * DrawsTreeStep)))))

(***************************************************************************)
(* extract_bits and >=                                                     *)
(***************************************************************************)
RECURSIVE RawBits(_, _, _, _, _, _)
\* a_bits = [self.from_binary_shares(shares=(raw_bit, 0, 0), ...) for raw_bit in a_raw_bits]
RawBits(h, size, value, bits, t, k) ==
    IF Len(bits) = size THEN [h |-> h, bits |-> bits]
    ELSE Bind(FromBinaryShares(h, <<(value \div (2 ^ Len(bits))) % 2, 0, 0>>, size, t, k),
              LAMBDA h1 : RawBits(h1, size, value, Append(bits, Len(h1)), t,
                                  k + DrawsFromBinaryShares))

DrawsExtractBits(size) ==
    DrawsRandomNumberAndBits(size) + DrawsReShare + size * DrawsFromBinaryShares
    + DrawsBitwiseAddition(size)

\* extract_bits that masks with a = x + r
ExtractBitsMaskAdded(h, x, t, k) ==
    LET size == h[x].size
        k1 == k + DrawsRandomNumberAndBits(size)
    IN  Bind(GenerateRandomNumberAndBits(h, size, t, k), LAMBDA rnd :
        Bind(Add(rnd.h, x, rnd.r, t, k1), LAMBDA ha :
        Bind(RawBits(ha, size, NumericValue(ha[Len(ha)]), << >>, t, k1 + DrawsReShare),
             LAMBDA ab :
            BitwiseAddition(ab.h, ab.bits, rnd.bits, t,
                            k1 + DrawsReShare + size * DrawsFromBinaryShares))))

\* x.extract_bits()
ExtractBits(h, x, t, k) ==
    LET size == h[x].size
        k1 == k + DrawsRandomNumberAndBits(size)
    IN  Bind(GenerateRandomNumberAndBits(h, size, t, k), LAMBDA rnd :
        Bind(Sub(rnd.h, x, rnd.r, t, k1), LAMBDA ha :
        Bind(RawBits(ha, size, NumericValue(ha[Len(ha)]), << >>, t, k1 + DrawsReShare),
             LAMBDA ab :
            BitwiseAddition(ab.h, ab.bits, rnd.bits, t,
                            k1 + DrawsReShare + size * DrawsFromBinaryShares))))

\* a >= b that reads the lowest bit of a - b, not the highest
GteLowestBit(h, a, b, t, k) ==
    IF h[a].size # h[b].size THEN Raise(h)
    ELSE LET size == h[a].size
             k1 == k + DrawsReShare + DrawsExtractBits(size)
         IN  Bind(Sub(h, a, b, t, k), LAMBDA hd :
             Bind(ExtractBits(hd, Len(hd), t, k + DrawsReShare), LAMBDA d :
             Bind(InitValue(d.h, 1, size, t, k1), LAMBDA h1 :
                 Sub(h1, Len(h1), d.bits[1], t, k1 + DrawsGenerateShares))))

\* a >= b
Gte(h, a, b, t, k) ==
    IF h[a].size # h[b].size THEN Raise(h)
    ELSE LET size == h[a].size
             k1 == k + DrawsReShare + DrawsExtractBits(size)
         IN  Bind(Sub(h, a, b, t, k), LAMBDA hd :
             Bind(ExtractBits(hd, Len(hd), t, k + DrawsReShare), LAMBDA d :
             Bind(InitValue(d.h, 1, size, t, k1), LAMBDA h1 :
                 Sub(h1, Len(h1), d.bits[Len(d.bits)], t, k1 + DrawsGenerateShares))))

(***************************************************************************)
(* The user program: it holds the objects of heap and calls one method at  *)
(* a time.  calls counts the calls; last records the last one: its name,   *)
(* its operands (their ids, and what they were before the call), its plain *)
(* argument, whether it raised, and the ids of the objects it returned.    *)
(* The temporaries of a call are garbage when it returns.                  *)
(***************************************************************************)
Secrets(size) ==
    { [size |-> size, shares |-> <<a, b, c>>] :
        a \in 0 .. (Mod(size) - 1), b \in 0 .. (Mod(size) - 1), c \in 0 .. (Mod(size) - 1) }

\* the sizes and the shares from_binary_shares is called with
BinarySizes == {1, 2, 3, 4}

BinaryInputs == {0, 1}

NoCall == [op |-> "init", args |-> << >>, pre |-> << >>, plain |-> << >>,
           err |-> FALSE, res |-> << >>]

\* the heap after a call that left hf and returned the objects res of hf
Commit(hf, res) ==
    SubSeq(hf, 1, Len(heap)) \o [i \in 1 .. Len(res) |-> hf[res[i]]]

Finish(op, args, plain, hf, res) ==
    /\ heap' = IF Raised(hf) THEN SubSeq(hf, 1, Len(heap)) ELSE Commit(hf, res)
    /\ calls' = calls + 1
    /\ last' = [op |-> op, args |-> args,
                pre |-> [i \in 1 .. Len(args) |-> heap[args[i]]],
                plain |-> plain, err |-> Raised(hf),
                res |-> IF Raised(hf) THEN << >>
                        ELSE [i \in 1 .. Len(res) |-> Len(heap) + i]]

SameSize(a, b) == last.pre[a].size = last.pre[b].size

\* SharemindSecret(value=v, size=n), under tape t
FromValueCall(v, n, t) ==
    \E hf \in {InitValue(heap, v, n, t, 0)} :
        Finish("from_value", << >>, <<v, n>>, hf, <<Len(hf)>>)

\* SharemindSecret(shares=shares, size=n)
FromSharesCall(shares, n) ==
    \E hf \in {InitShares(heap, shares, n)} :
        Finish("from_shares", << >>, <<shares, n>>, hf, <<Len(hf)>>)

\* heap[a].re_share(): returns nothing
ReShareCall(a, t) ==
    \E hf \in {ReShareOf(heap, a, t, 0)} :
        Finish("re_share", <<a>>, << >>, hf, << >>)

AddCall(a, b, t) ==
    \E hf \in {Add(heap, a, b, t, 0)} :
        Finish("add", <<a, b>>, << >>, hf, <<Len(hf)>>)

SubCall(a, b, t) ==
    \E hf \in {Sub(heap, a, b, t, 0)} :
        Finish("sub", <<a, b>>, << >>, hf, <<Len(hf)>>)

MulScalarCall(a, c, t) ==
    \E hf \in {MulScalar(heap, a, c, t, 0)} :
        Finish("mul_scalar", <<a>>, <<c>>, hf, <<Len(hf)>>)

MulCall(a, b, t) ==
    \E hf \in {Mul(heap, a, b, t, 0)} :
        Finish("mul", <<a, b>>, << >>, hf, <<Len(hf)>>)

FromBinarySharesCall(shares, n, t) ==
    \E hf \in {FromBinaryShares(heap, shares, n, t, 0)} :
        Finish("from_binary_shares", << >>, <<shares, n>>, hf, <<Len(hf)>>)

\* returns r and then the bits
GenerateRandomNumberAndBitsCall(n, t) ==
    \E g \in {GenerateRandomNumberAndBits(heap, n, t, 0)} :
        Finish("generate_random_number_and_bits", << >>, <<n>>, g.h, <<g.r>> \o g.bits)

\* the operands are the bits of u and then the bits of v
BitwiseAdditionCall(u, v, t) ==
    \E w \in {BitwiseAddition(heap, u, v, t, 0)} :
        Finish("bitwise_addition", u \o v, <<Len(u)>>, w.h, w.bits)

ExtractBitsCall(a, t) ==
    \E w \in {ExtractBits(heap, a, t, 0)} :
        Finish("extract_bits", <<a>>, << >>, w.h, w.bits)

GteCall(a, b, t) ==
    \E hf \in {Gte(heap, a, b, t, 0)} :
        Finish("gte", <<a, b>>, << >>, hf, <<Len(hf)>>)

\* the value of the little-endian bits ids of the heap h
RECURSIVE BitsValue(_, _)
BitsValue(h, ids) ==
    IF ids = << >> THEN 0
    ELSE NumericValue(h[Head(ids)]) + 2 * BitsValue(h, Tail(ids))

RECURSIVE PreBitsValue(_)
PreBitsValue(pre) ==
    IF pre = << >> THEN 0 ELSE NumericValue(Head(pre)) + 2 * PreBitsValue(Tail(pre))

AllBits(h, ids) == \A i \in 1 .. Len(ids) : NumericValue(h[ids[i]]) \in {0, 1}

IsPowerOfTwo(n) == n >= 1 /\ 2 ^ IntLog2(n) = n

(***************************************************************************)
(* SpecMul: secure multiplication of every two secrets of a size.          *)
(***************************************************************************)
MulSizes == {1, 2}

InitMul ==
    /\ \E n \in MulSizes : \E x \in Secrets(n), y \in Secrets(n) : heap = <<x, y>>
    /\ last = NoCall
    /\ calls = 0

NextMul == calls = 0 /\ \E a \in 1 .. 2, b \in 1 .. 2, t \in Tapes : MulCall(a, b, t)

SpecMul == InitMul /\ [][NextMul]_vars

\* C1: mul(x, y) returns a secret that reconstructs to
\* (reconstruct(x) * reconstruct(y)) mod 2^n, whatever the shares and the draws
MulCorrect ==
    (last.op = "mul" /\ SameSize(1, 2)) =>
        /\ ~last.err
        /\ NumericValue(heap[last.res[1]])
             = (NumericValue(last.pre[1]) * NumericValue(last.pre[2])) % Mod(last.pre[1].size)

\* a product that wraps around 2^n: 3 * 3 = 9 of size 2 reconstructs to 1
MulWraps ==
    /\ last.op = "mul" /\ ~last.err
    /\ last.pre[1].size = 2 /\ last.pre[1] # last.pre[2]
    /\ NumericValue(last.pre[1]) = 3 /\ NumericValue(last.pre[2]) = 3
    /\ NumericValue(heap[last.res[1]]) = 1

(***************************************************************************)
(* SpecBinary: from_binary_shares of every triple of bits.                 *)
(***************************************************************************)
InitBinary == heap = << >> /\ last = NoCall /\ calls = 0

NextBinary ==
    /\ calls = 0
    /\ \E n \in BinarySizes : \E t1 \in BinaryInputs, t2 \in BinaryInputs, t3 \in BinaryInputs :
           \E t \in Tapes : FromBinarySharesCall(<<t1, t2, t3>>, n, t)

SpecBinary == InitBinary /\ [][NextBinary]_vars

\* C7: from_binary_shares((t1, t2, t3), n) returns a secret of size n that
\* reconstructs to (t1 + t2 + t3) mod 2
BinaryCorrect ==
    last.op = "from_binary_shares" =>
        /\ ~last.err
        /\ heap[last.res[1]].size = last.plain[2]
        /\ NumericValue(heap[last.res[1]])
             = (last.plain[1][1] + last.plain[1][2] + last.plain[1][3]) % 2

\* the three bits set: (1, 1, 1) of size 4 converts to a sharing of 1
BinaryOfThreeOnes ==
    /\ last.op = "from_binary_shares" /\ ~last.err
    /\ last.plain = <<(<<1, 1, 1>>), 4>>
    /\ heap[last.res[1]].size = 4
    /\ NumericValue(heap[last.res[1]]) = 1

(***************************************************************************)
(* SpecBitAdd: bitwise_addition of the bits of every U and V of a size,    *)
(* each bit a secret built from its value.                                 *)
(***************************************************************************)
BitAddSizes == {1, 2, 3, 4}

\* [SharemindSecret(value=bit i of U, size=n) ...] + [... of V ...]
BitSecrets(n, U, V, t) ==
    [i \in 1 .. (2 * n) |->
        LET bit == IF i <= n THEN (U \div (2 ^ (i - 1))) % 2
                   ELSE (V \div (2 ^ (i - n - 1))) % 2
        IN  [size |-> n, shares |-> GenerateShares(bit, n, t, DrawsGenerateShares * (i - 1))]]

InitBitAdd ==
    /\ \E n \in BitAddSizes, t \in Tapes :
          \E U \in 0 .. (Mod(n) - 1), V \in 0 .. (Mod(n) - 1) : heap = BitSecrets(n, U, V, t)
    /\ last = NoCall
    /\ calls = 0

NextBitAdd ==
    /\ calls = 0
    /\ LET n == Len(heap) \div 2
       IN  \E t \in Tapes :
               BitwiseAdditionCall([i \in 1 .. n |-> i], [i \in 1 .. n |-> n + i], t)

SpecBitAdd == InitBitAdd /\ [][NextBitAdd]_vars

\* the operands of the last bitwise_addition: n bits of u, n bits of v, of size n
BitAddOperands(n) ==
    /\ last.op = "bitwise_addition"
    /\ last.plain[1] = n /\ Len(last.pre) = 2 * n
    /\ \A i \in 1 .. (2 * n) : last.pre[i].size = n /\ NumericValue(last.pre[i]) \in {0, 1}

\* C5: for n a power of two, bitwise_addition returns n bits whose value is
\* (U + V) mod 2^n
BitAddCorrect ==
    \A n \in BitAddSizes :
        (BitAddOperands(n) /\ IsPowerOfTwo(n)) =>
            /\ ~last.err
            /\ Len(last.res) = n
            /\ AllBits(heap, last.res)
            /\ BitsValue(heap, last.res)
                 = (PreBitsValue(SubSeq(last.pre, 1, n))
                    + PreBitsValue(SubSeq(last.pre, n + 1, 2 * n))) % Mod(n)

\* an addition whose carry out of the last position is discarded:
\* 13 + 7 = 20 of size 4 gives the bits of 4
BitAddDropsCarry ==
    /\ BitAddOperands(4) /\ ~last.err
    /\ PreBitsValue(SubSeq(last.pre, 1, 4)) = 13
    /\ PreBitsValue(SubSeq(last.pre, 5, 8)) = 7
    /\ Len(last.res) = 4
    /\ [i \in 1 .. 4 |-> NumericValue(heap[last.res[i]])] = <<0, 0, 1, 0>>

\* C6: for n not a power of two, bitwise_addition fails and returns no vector
BitAddRejectsNonPowerOfTwo ==
    \A n \in BitAddSizes :
        (BitAddOperands(n) /\ ~IsPowerOfTwo(n)) => (last.err /\ last.res = << >>)

\* 1 + 7 of size 3 returns three objects, and they are not the bits of 0
BitAddOfThreeReturns ==
    /\ BitAddOperands(3) /\ ~last.err
    /\ PreBitsValue(SubSeq(last.pre, 1, 3)) = 1
    /\ PreBitsValue(SubSeq(last.pre, 4, 6)) = 7
    /\ Len(last.res) = 3
    /\ ~AllBits(heap, last.res)

(***************************************************************************)
(* SpecExtract: extract_bits of every secret of a size.                    *)
(***************************************************************************)
ExtractSizes == {1, 2, 4}

\* the first two shares of the secret whose bits are extracted
ShareSample(n) == {0, 1, Mod(n) - 1}

InitExtract ==
    /\ \E n \in ExtractSizes : \E v \in 0 .. (Mod(n) - 1) :
          \E a \in ShareSample(n), b \in ShareSample(n) :
              heap = <<[size |-> n, shares |-> <<a, b, (v - a - b) % Mod(n)>>]>>
    /\ last = NoCall
    /\ calls = 0

NextExtract == calls = 0 /\ \E t \in Tapes : ExtractBitsCall(1, t)

SpecExtract == InitExtract /\ [][NextExtract]_vars

\* C4: extract_bits(x) returns n secrets of size n, each 0 or 1, whose
\* little-endian value is reconstruct(x)
ExtractCorrect ==
    last.op = "extract_bits" =>
        /\ ~last.err
        /\ Len(last.res) = last.pre[1].size
        /\ \A i \in 1 .. Len(last.res) : heap[last.res[i]].size = last.pre[1].size
        /\ AllBits(heap, last.res)
        /\ BitsValue(heap, last.res) = NumericValue(last.pre[1])

\* the bits of 11 of size 4, lowest first
ExtractsEleven ==
    /\ last.op = "extract_bits" /\ ~last.err
    /\ last.pre[1].size = 4 /\ NumericValue(last.pre[1]) = 11
    /\ Len(last.res) = 4
    /\ [i \in 1 .. 4 |-> NumericValue(heap[last.res[i]])] = <<1, 1, 0, 1>>

(***************************************************************************)
(* SpecGte: x >= y for x and y built from every two values of the lower    *)
(* half of the ring and its first value above.                             *)
(***************************************************************************)
GteSizes == {1, 2, 4}

InitGte ==
    /\ \E n \in GteSizes, t \in Tapes :
          \E x \in 0 .. (2 ^ (n - 1)), y \in 0 .. (2 ^ (n - 1)) :
              heap = <<[size |-> n, shares |-> GenerateShares(x, n, t, 0)],
                       [size |-> n, shares |-> GenerateShares(y, n, t, DrawsGenerateShares)]>>
    /\ last = NoCall
    /\ calls = 0

NextGte == calls = 0 /\ \E t \in Tapes : GteCall(1, 2, t)

SpecGte == InitGte /\ [][NextGte]_vars

InLowerHalf(s) == NumericValue(s) < 2 ^ (s.size - 1)

\* C2: for x and y in [0, 2^(n-1)), x >= y returns a secret that reconstructs
\* to 1 if x >= y and to 0 if x < y
GteCorrect ==
    (last.op = "gte" /\ InLowerHalf(last.pre[1]) /\ InLowerHalf(last.pre[2])) =>
        /\ ~last.err
        /\ NumericValue(heap[last.res[1]])
             = IF NumericValue(last.pre[1]) >= NumericValue(last.pre[2]) THEN 1 ELSE 0

\* 3 >= 7 of size 4: both below 8, the difference is negative, the result is 0
GteOfSmaller ==
    /\ last.op = "gte" /\ ~last.err
    /\ last.pre[1].size = 4
    /\ NumericValue(last.pre[1]) = 3 /\ NumericValue(last.pre[2]) = 7
    /\ NumericValue(heap[last.res[1]]) = 0

(***************************************************************************)
(* SpecDemo: one iteration of the loop of demo.main, for the sizes n of    *)
(* DemoSizes and the values i and j that random.randint(0, 2**(n-1)) may   *)
(* return.                                                                 *)
(***************************************************************************)
DemoSizes == {2, 4, 8}

\* what random.randint(0, 2**(n-1)) returns: every value for the small n, the
\* values next to the ends of the range for the others
DemoValues(n) ==
    LET top == 2 ^ (n - 1)
    IN  IF top <= 8 THEN 0 .. top ELSE {0, 1, top - 1, top}

DrawsDemoValues == 2

\* the body of the loop: last.plain is <<i, j, n, whether it printed Failed>>
DemoIteration(i, j, n) ==
    \E t \in Tapes :
        \E h2 \in {InitValue(InitValue(<< >>, i, n, t, DrawsDemoValues), j, n, t,
                             DrawsDemoValues + DrawsGenerateShares)} :
        \E h3 \in {Mul(h2, 1, 2, t, DrawsDemoValues + 2 * DrawsGenerateShares)} :
        \E h4 \in {Gte(h3, 1, 2, t, DrawsDemoValues + 2 * DrawsGenerateShares + DrawsMul)} :
            LET failed == \/ (i * j) % (2 ^ n) # NumericValue(h3[Len(h3)])
                          \/ (i >= j) # (NumericValue(h4[Len(h4)]) # 0)
            IN  /\ heap' = <<h4[1], h4[2], h3[Len(h3)], h4[Len(h4)]>>
                /\ calls' = calls + 1
                /\ last' = [op |-> "demo", args |-> << >>, pre |-> << >>,
                            plain |-> <<i, j, n, failed>>, err |-> FALSE, res |-> <<3, 4>>]

InitDemo == heap = << >> /\ last = NoCall /\ calls = 0

NextDemo ==
    /\ calls = 0
    /\ \E n \in DemoSizes : \E i \in DemoValues(n), j \in DemoValues(n) : DemoIteration(i, j, n)

SpecDemo == InitDemo /\ [][NextDemo]_vars

\* C3: for i and j in [0, 2^(n-1)], 2^(n-1) included, (a >= b) reconstructs to 1
\* if and only if i >= j, and the demo does not print Failed
DemoNeverFails ==
    last.op = "demo" =>
        /\ (NumericValue(heap[4]) = 1) <=> (last.plain[1] >= last.plain[2])
        /\ ~last.plain[4]

\* the iteration that draws i = 2^(n-1) and j = 0 for n = 8: a >= b
\* reconstructs to 0 and the demo prints Failed
DemoFailsAtTop ==
    /\ last.op = "demo"
    /\ last.plain = <<128, 0, 8, TRUE>>
    /\ NumericValue(heap[3]) = 0
    /\ NumericValue(heap[4]) = 0

(***************************************************************************)
(* SpecLocal: x + y, x - y and x * k for every two secrets of a size and   *)
(* plain integers k on both sides of [0, 2^n).                             *)
(***************************************************************************)
LocalSizes == {1, 2}

ScalarInputs == {-3, -1, 0, 1, 2, 4, 5}

InitLocal ==
    /\ \E n \in LocalSizes : \E x \in Secrets(n), y \in Secrets(n) : heap = <<x, y>>
    /\ last = NoCall
    /\ calls = 0

LocalAdd == calls = 0 /\ \E t \in Tapes : AddCall(1, 2, t)

LocalSub == calls = 0 /\ \E t \in Tapes : SubCall(1, 2, t)

LocalMulScalar == calls = 0 /\ \E c \in ScalarInputs, t \in Tapes : MulScalarCall(1, c, t)

NextLocal == LocalAdd \/ LocalSub \/ LocalMulScalar

SpecLocal == InitLocal /\ [][NextLocal]_vars

\* C8: add, sub and mul_scalar commute with reconstruct, modulo 2^n with the
\* non-negative remainder
LocalOpsHomomorphic ==
    LET mod == Mod(last.pre[1].size)
        x == NumericValue(last.pre[1])
        w == NumericValue(heap[last.res[1]])
    IN  /\ (last.op = "add" /\ SameSize(1, 2)) =>
              (~last.err /\ w = (x + NumericValue(last.pre[2])) % mod)
        /\ (last.op = "sub" /\ SameSize(1, 2)) =>
              (~last.err /\ w >= 0 /\ w = (x - NumericValue(last.pre[2])) % mod)
        /\ last.op = "mul_scalar" =>
              (~last.err /\ w >= 0 /\ w = (x * last.plain[1]) % mod)

\* a negative factor: 3 * -3 = -9 of size 2 reconstructs to 3
ScalesByNegative ==
    /\ last.op = "mul_scalar" /\ ~last.err
    /\ last.plain = <<-3>>
    /\ last.pre[1].size = 2 /\ NumericValue(last.pre[1]) = 3
    /\ NumericValue(heap[last.res[1]]) = 3

(***************************************************************************)
(* SpecTree: rounds 2 ... log_2(n) + 1 of bitwise_addition with the        *)
(* iterations over l and m of a level run in any order and interleaved,    *)
(* one assignment of the loop body at a time; a level starts when the one  *)
(* before it is complete.  heap is s_flags and then p_flags.  last.plain   *)
(* holds the size, the tape t and the next draw k, the level, how far each *)
(* iteration of the level is (0: not started, 1: s_flags[i1] assigned,     *)
(* 2: p_flags[i1] assigned too) and the iterations in the order their      *)
(* assignments ran; last.pre is the flags of round 1.                      *)
(***************************************************************************)
TreeSizes == {2, 4}

\* s_flags and then p_flags after round 1, for the bits of U and V
FlagsOfRound1(n, U, V, t) ==
    LET u == [i \in 1 .. n |-> i]
        v == [i \in 1 .. n |-> n + i]
    IN  Bind(GenerateFlags(BitSecrets(n, U, V, t), u, v, << >>, t, 2 * n * DrawsGenerateShares),
             LAMBDA sf :
        Bind(PropagateFlags(sf.h, u, v, sf.s, << >>, t,
                            2 * n * DrawsGenerateShares + n * DrawsMul), LAMBDA pf :
            [i \in 1 .. (2 * n) |-> IF i <= n THEN pf.h[sf.s[i]] ELSE pf.h[pf.p[i - n]]]))

\* the first draw of the tree
TreeFirstDraw(n) == 2 * n * DrawsGenerateShares + n * DrawsMul + n * 3 * DrawsReShare

TreeState(n, t, k, lvl, pc, order) ==
    [size |-> n, t |-> t, k |-> k, level |-> lvl, pc |-> pc, order |-> order]

InitTree ==
    /\ \E n \in TreeSizes, t \in Tapes :
          \E U \in 0 .. (Mod(n) - 1), V \in 0 .. (Mod(n) - 1) :
          \E flags \in {FlagsOfRound1(n, U, V, t)} :
              /\ heap = flags
              /\ last = [op |-> "tree", args |-> << >>, pre |-> flags,
                         plain |-> TreeState(n, t, TreeFirstDraw(n), 0,
                                             [j \in 1 .. (n \div 2) |-> 0], << >>),
                         err |-> FALSE, res |-> << >>]
    /\ calls = 0

\* s_flags[i1] = s_flags[i1] + p_flags[i1] * s_flags[i2], by iteration j of the level
TreeAssignS(j) ==
    LET st == last.plain
        n == st.size
        i1 == TreeLevel(n, st.level)[j][1]
        i2 == TreeLevel(n, st.level)[j][2]
    IN  /\ st.pc[j] = 0
        /\ \E h1 \in {Mul(heap, n + i1 + 1, i2 + 1, st.t, st.k)} :
           \E h2 \in {Add(h1, i1 + 1, Len(h1), st.t, st.k + DrawsMul)} :
               heap' = [heap EXCEPT ![i1 + 1] = h2[Len(h2)]]
        /\ last' = [last EXCEPT !.plain = TreeState(n, st.t, st.k + DrawsMul + DrawsReShare,
                                                    st.level, [st.pc EXCEPT ![j] = 1],
                                                    Append(st.order, j))]
        /\ calls' = calls + 1

\* p_flags[i1] = p_flags[i1] * p_flags[i2], by iteration j of the level
TreeAssignP(j) ==
    LET st == last.plain
        n == st.size
        i1 == TreeLevel(n, st.level)[j][1]
        i2 == TreeLevel(n, st.level)[j][2]
    IN  /\ st.pc[j] = 1
        /\ \E h1 \in {Mul(heap, n + i1 + 1, n + i2 + 1, st.t, st.k)} :
               heap' = [heap EXCEPT ![n + i1 + 1] = h1[Len(h1)]]
        /\ last' = [last EXCEPT !.plain = TreeState(n, st.t, st.k + DrawsMul, st.level,
                                                    [st.pc EXCEPT ![j] = 2],
                                                    Append(st.order, j))]
        /\ calls' = calls + 1

LevelDone == \A j \in DOMAIN last.plain.pc : last.plain.pc[j] = 2

\* for k in range(0, int(math.log(size, 2))): the next k
TreeNextLevel ==
    LET st == last.plain
    IN  /\ LevelDone
        /\ st.level + 1 < IntLog2(st.size)
        /\ last' = [last EXCEPT !.plain = TreeState(st.size, st.t, st.k, st.level + 1,
                                                    [j \in DOMAIN st.pc |-> 0], << >>)]
        /\ UNCHANGED <<heap, calls>>

TreeSAssigned == \E j \in DOMAIN last.plain.pc : TreeAssignS(j)

TreePAssigned == \E j \in DOMAIN last.plain.pc : TreeAssignP(j)

NextTree == TreeSAssigned \/ TreePAssigned \/ TreeNextLevel

SpecTree == InitTree /\ [][NextTree]_vars

\* what the flags h (s_flags and then p_flags) reconstruct to
FlagValues(h) == [i \in 1 .. Len(h) |-> NumericValue(h[i])]

\* what the flags reconstruct to after the levels 0 .. lvl of the loops of the
\* code, run in their order from the flags of round 1
SequentialFlagValues(flags, n, lvl, t, k) ==
    LET st == Tree([h |-> flags, s |-> [i \in 1 .. n |-> i], p |-> [i \in 1 .. n |-> n + i]],
                   SubSeq(TreeIndices(n), 1, (lvl + 1) * (n \div 2)), 1, t, k)
    IN  [i \in 1 .. (2 * n) |->
            IF i <= n THEN NumericValue(st.h[st.s[i]]) ELSE NumericValue(st.h[st.p[i - n]])]

\* no iteration of level lvl writes an index another one of the level reads
\* as i2 or writes
LevelIndependent(n, lvl) ==
    LET idx == TreeLevel(n, lvl)
    IN  \A a \in 1 .. Len(idx), b \in 1 .. Len(idx) :
            /\ idx[a][1] # idx[b][2]
            /\ (a # b => idx[a][1] # idx[b][1])

\* C11: for n a power of two, the iterations over l and m of a level write
\* indices no other iteration of the level reads as i2 or writes, and whatever
\* the order and the interleaving they ran in, the s and p flags reconstruct,
\* when the level is complete, to what the loops of the code give in their order
TreeLevelOrderIndependent ==
    (last.op = "tree" /\ IsPowerOfTwo(last.plain.size)) =>
        /\ LevelIndependent(last.plain.size, last.plain.level)
        /\ LevelDone =>
              FlagValues(heap)
                = SequentialFlagValues(last.pre, last.plain.size, last.plain.level,
                                       last.plain.t, TreeFirstDraw(last.plain.size))

\* the last level of size 4 complete, its second iteration (i1 = 3) having
\* started first and ended last, with the carry of position 0 in every s flag
TreeOutOfOrder ==
    /\ last.op = "tree" /\ last.plain.size = 4 /\ last.plain.level = 1
    /\ LevelDone
    /\ last.plain.order = <<2, 1, 1, 2>>
    /\ FlagValues(last.pre) = <<1, 0, 0, 0, 0, 1, 1, 1>>
    /\ FlagValues(heap) = <<1, 1, 1, 1, 0, 0, 0, 0>>

(***************************************************************************)
(* Spec: a user program that makes up to MaxCalls calls, of any method, on *)
(* the objects it holds, up to MaxObjs of them.                            *)
(***************************************************************************)
Sizes == {1, 2}

\* plain values on both sides of the ends of [0, 2^n)
ValueInputs(n) == {-1, 0, Mod(n) - 1, Mod(n)}

\* plain factors on both sides of [0, 2^n)
UserScalarInputs == {-3, 2, 5}

\* share tuples: in range, out of range, and not of length 3
ShareInputs(n) ==
    {<<0, 0, 0>>, <<1, 0, Mod(n) - 1>>, <<Mod(n) - 1, Mod(n) - 1, 1>>,
     <<0, Mod(n), 0>>, <<-1, 0, 0>>, <<0, 1>>, <<0, 1, 0, 1>>}

BinaryShareInputs == {<<1, 0, 0>>, <<0, 1, 1>>, <<1, 1, 1>>}

\* the lists of n of the objects held
BitLists(n) == [1 .. n -> 1 .. Len(heap)]

\* the program may make one more call, which returns n objects
MayCall(n) == calls < MaxCalls /\ Len(heap) + n <= MaxObjs

Init == heap = << >> /\ last = NoCall /\ calls = 0

UserFromValue ==
    \E n \in Sizes, t \in UserTapes : \E v \in ValueInputs(n) :
        MayCall(1) /\ FromValueCall(v, n, t)

UserFromShares ==
    \E n \in Sizes : \E shares \in ShareInputs(n) : MayCall(1) /\ FromSharesCall(shares, n)

UserFromBinaryShares ==
    \E n \in Sizes, t \in UserTapes : \E shares \in BinaryShareInputs :
        MayCall(1) /\ FromBinarySharesCall(shares, n, t)

UserGenerateRandomNumberAndBits ==
    \E n \in Sizes, t \in UserTapes : MayCall(n + 1) /\ GenerateRandomNumberAndBitsCall(n, t)

UserReShare == \E a \in 1 .. Len(heap), t \in UserTapes : MayCall(0) /\ ReShareCall(a, t)

UserAdd ==
    \E a \in 1 .. Len(heap), b \in 1 .. Len(heap), t \in UserTapes :
        MayCall(1) /\ AddCall(a, b, t)

UserSub ==
    \E a \in 1 .. Len(heap), b \in 1 .. Len(heap), t \in UserTapes :
        MayCall(1) /\ SubCall(a, b, t)

UserMulScalar ==
    \E a \in 1 .. Len(heap), c \in UserScalarInputs, t \in UserTapes :
        MayCall(1) /\ MulScalarCall(a, c, t)

UserMul ==
    \E a \in 1 .. Len(heap), b \in 1 .. Len(heap), t \in UserTapes :
        MayCall(1) /\ MulCall(a, b, t)

UserGte ==
    \E a \in 1 .. Len(heap), b \in 1 .. Len(heap), t \in UserTapes :
        MayCall(1) /\ GteCall(a, b, t)

UserExtractBits ==
    \E a \in 1 .. Len(heap), t \in UserTapes : MayCall(heap[a].size) /\ ExtractBitsCall(a, t)

UserBitwiseAddition ==
    \E n \in Sizes, t \in UserTapes : \E u \in BitLists(n), v \in BitLists(n) :
        MayCall(n) /\ BitwiseAdditionCall(u, v, t)

Next ==
    \/ UserFromValue
    \/ UserFromShares
    \/ UserFromBinaryShares
    \/ UserGenerateRandomNumberAndBits
    \/ UserReShare
    \/ UserAdd
    \/ UserSub
    \/ UserMulScalar
    \/ UserMul
    \/ UserGte
    \/ UserExtractBits
    \/ UserBitwiseAddition

Spec == Init /\ [][Next]_vars

\* C9: a call leaves every object that existed before it as it was, its
\* operands included; re_share changes the shares, and only the shares, of
\* the object it is called on, and of no other
OperandsNotMutated ==
    [][\A i \in 1 .. Len(heap) :
           /\ i <= Len(heap')
           /\ heap'[i].size = heap[i].size
           /\ (heap'[i] = heap[i] \/ (last'.op = "re_share" /\ last'.args = <<i>>))]_vars

\* C10: every object holds exactly three shares, each in [0, 2^n); from_value
\* fails for a value outside [0, 2^n), from_shares fails for a share outside
\* it or a tuple not of length 3, and both succeed otherwise
ShareRange ==
    /\ \A i \in 1 .. Len(heap) :
          /\ Len(heap[i].shares) = 3
          /\ \A j \in 1 .. 3 : heap[i].shares[j] \in 0 .. (Mod(heap[i].size) - 1)
    /\ last.op = "from_value" =>
          (last.err <=> ~(last.plain[1] \in 0 .. (Mod(last.plain[2]) - 1)))
    /\ last.op = "from_shares" =>
          (last.err <=> ~(/\ Len(last.plain[1]) = 3
                          /\ \A j \in 1 .. Len(last.plain[1]) :
                                 last.plain[1][j] \in 0 .. (Mod(last.plain[2]) - 1)))

\* a mul of two distinct objects that returned: both are as they were, and the
\* result is a third object
MulLeftOperands ==
    /\ last.op = "mul" /\ ~last.err
    /\ last.args[1] # last.args[2]
    /\ heap[last.args[1]] = last.pre[1] /\ heap[last.args[2]] = last.pre[2]
    /\ last.res = <<Len(heap)>> /\ Len(heap) > 2

\* a sub whose first share is negative before the reduction
SubOfLargerShare ==
    /\ last.op = "sub" /\ ~last.err
    /\ last.pre[1].shares[1] < last.pre[2].shares[1]
    /\ Len(heap[last.res[1]].shares) = 3
    /\ \A j \in 1 .. 3 : heap[last.res[1]].shares[j] \in 0 .. (Mod(last.pre[1].size) - 1)

====
